---- MODULE Spec2Model ----
(***************************************************************************)
(* dev-tools-installer: the detect/install driver (Installer.Run,          *)
(* checkTool, getToolVersion, installTool), the Progress indicator and     *)
(* the command-template substitution of internal/installer/installer.go.   *)
(*                                                                         *)
(* Five specifications share the module's variables:                       *)
(*   Spec          the driver: one pass of Run over tool_list;             *)
(*   SpecProgress  one Progress instance: its render goroutine against     *)
(*                 the goroutine that calls Stop;                          *)
(*   SpecSubst     the rewriting of one command template into an argv      *)
(*                 (os.ExpandEnv, strings.ReplaceAll, strings.Fields);     *)
(*   SpecExtract   one call of extractVersion on one captured output;      *)
(*   SpecCommand   the installation commands of a run, one after another,  *)
(*                 each with its subprocess, its output-scanning goroutine *)
(*                 and the Progress instances created for it.              *)
(* Each specification leaves the variables of the others at their idle     *)
(* values.                                                                 *)
(***************************************************************************)
EXTENDS Naturals, Sequences, FiniteSets

\* ------------------------------------------------------------------ bounds

\* Longest tool_list.
MaxTools == 2
\* Most methods of one tool, and most commands of one method.
MaxMethods == 3
MaxCmds == 2
\* Most command templates of one tool that expand to no token at all.
MaxBlank == 1
\* Most spinner frames one render loop writes.
MaxSpins == 3
\* Most pieces (words, blanks, variable references) of one command template.
MaxPieces == 4
\* Most atoms of a probe output tried exhaustively, and most white-space
\* atoms on one side of the dash of an amass output.
MaxAtoms == 3
MaxGap == 2
\* Most installation commands started in one run, most output lines of one
\* command, and most Progress instances created in one run.
MaxRunCmds == 2
MaxLines == 1
MaxIndicators == 3

\* ------------------------------------------------------------ configuration

\* The names a tool_list holds, in the order of installer.yaml's tool_list.
ToolNames == <<"go", "amass", "subfinder", "assetfinder">>

\* Sequences over S of length 0..n.
SeqsUpTo(S, n) == UNION {[1..k -> S] : k \in 0..n}

\* config.InstallMethod: a method is its ordered commands; a command is
\* known to the driver by its place in the method, so Commands is their number.
InstallMethod == [Commands : 0..MaxCmds]

\* The tool names as a set.
ToolNameSet == {ToolNames[k] : k \in 1..Len(ToolNames)}

\* config.ToolConfig. Dependencies lists names of tools; installer.yaml gives
\* a tool no dependency or one.
ToolConfig == [Dependencies : SeqsUpTo(ToolNameSet, 1),
               Version : {"", "1.23.3", "v0.1.1"},
               VersionFlag : {"", "--show-version"},
               Methods : SeqsUpTo(InstallMethod, MaxMethods)]

\* A missing (or null) entry of config.Tools is the nil *ToolConfig.
Nil == [nil |-> TRUE]

\* What i.config.Tools[name] can yield.
ToolsLookup == ToolConfig \cup {Nil}

\* tool_list: the first n names, in declared order (n = 0 is the empty list).
\* The driver reads a name's entry and looks the name up on the search path
\* only while it processes that name, so both are drawn there.
ToolLists == {SubSeq(ToolNames, 1, n) : n \in 0..MaxTools}

\* The flags getToolVersion tries when the entry names none.
versionFlagsDefault == <<"--version", "-version", "version", "-v", "-V", "--ver", "-ver">>

\* What extractVersion can make of a probe's captured output: "" for blank
\* output, a version string otherwise.
Extracted == {"", "v1.2.3"}

VARIABLES
    ToolList,      \* i.config.ToolList
    pc,            \* where the driver is
    idx,           \* place in ToolList of the tool being processed (1-based)
    installed,     \* Run's counter
    found,         \* exec.LookPath found the current tool
    declared,      \* i.config.Tools[name].Version as getToolVersion read it
    version,       \* getToolVersion's result for the current tool
    versionFlags,  \* getToolVersion's flag list
    flagIdx,       \* next flag to try
    probeLog,      \* the version probes spawned for the current tool, in order
    methods,       \* toolConfig.Methods of the tool being installed
    mIdx,          \* method being tried (1-based)
    cIdx,          \* command of that method being run (1-based)
    cmdLog,        \* the installation commands taken up for the current tool, in
                   \* order: "running", "failed" (did not start, or exited
                   \* non-zero), "zero", or "nopipe" (never started)
    attempted,     \* the methods entered for the current tool, in order
    blanks,        \* blank command templates skipped for the current tool
    toolConfig,    \* installTool's toolConfig: "nil", "entry", or "" before the lookup
    err,           \* the error installTool returned for the current tool, "" if none
    unmet,         \* as installTool took up the tool's methods, a tool named in
                   \* toolConfig.Dependencies was neither present nor installed
    outcomes,      \* per processed tool: "present", "installed" or "failed"
    summary,       \* the printed summary line, once printed
    exitCode       \* the process's exit status ("0", "2"), "running" until it ends

driverVars == <<ToolList, pc, idx, installed, found, declared, version, versionFlags, flagIdx,
                probeLog, methods, mIdx, cIdx, cmdLog, attempted, blanks, toolConfig, err,
                unmet, outcomes, summary, exitCode>>

\* One Progress instance (SpecProgress).
VARIABLES
    stopped,       \* p.stopped
    stop,          \* p.stop, the channel: "open" or "closed"
    mu,            \* p.mu: "free", or the goroutine that holds it
    render,        \* where the render goroutine of Start is
    caller,        \* where the goroutine that calls Start and Stop is
    spins,         \* the render loop's i: spinner frames written
    term           \* what reached the terminal, and when Stop returned, in order

progressVars == <<stopped, stop, mu, render, caller, spins, term>>

\* One command template on its way to an argv (SpecSubst).
VARIABLES
    environ,       \* the process environment
    toolVersion,   \* toolConfig.Version
    template,      \* the command as the configuration gives it
    command,       \* installTool's command
    parts,         \* installTool's parts
    step           \* how far the rewriting is

substVars == <<environ, toolVersion, template, command, parts, step>>

\* One call of extractVersion (SpecExtract).
VARIABLES
    output,        \* extractVersion's argument
    extracted,     \* what extractVersion returned
    extractStep    \* "idle", "called" or "returned"

extractVars == <<output, extracted, extractStep>>

\* The installation commands of a run with their goroutines (SpecCommand).
VARIABLES
    dpc,           \* where the driver is in installTool's handling of a command
    run,           \* the commands started so far, in order: per command its
                   \* process, its pipe, its scanner goroutine and its progress variable
    indicators     \* the Progress instances created so far, in order

commandVars == <<dpc, run, indicators>>

vars == <<driverVars, progressVars, substVars, extractVars, commandVars>>

NoSummary == [installed |-> 0, total |-> 0, printed |-> FALSE]

\* The driver before Run's loop, with ToolList given.
DriverInit(list) ==
    /\ ToolList = list
    /\ pc = "loop"
    /\ idx = 1
    /\ installed = 0
    /\ found = FALSE
    /\ declared = ""
    /\ version = ""
    /\ versionFlags = <<>>
    /\ flagIdx = 1
    /\ probeLog = <<>>
    /\ methods = <<>>
    /\ mIdx = 1
    /\ cIdx = 1
    /\ cmdLog = <<>>
    /\ attempted = <<>>
    /\ blanks = 0
    /\ toolConfig = ""
    /\ err = ""
    /\ unmet = FALSE
    /\ outcomes = <<>>
    /\ summary = NoSummary
    /\ exitCode = "running"

\* A Progress that does not exist.
ProgressIdle ==
    /\ stopped = FALSE
    /\ stop = "open"
    /\ mu = "free"
    /\ render = "none"
    /\ caller = "none"
    /\ spins = 0
    /\ term = <<>>

\* No command being rewritten.
SubstIdle ==
    /\ environ = [version |-> <<>>, HOME |-> <<>>]
    /\ toolVersion = ""
    /\ template = <<>>
    /\ command = <<>>
    /\ parts = <<>>
    /\ step = "idle"

\* No call of extractVersion.
ExtractIdle ==
    /\ output = <<>>
    /\ extracted = <<>>
    /\ extractStep = "idle"

\* No command started.
CommandIdle ==
    /\ dpc = "idle"
    /\ run = <<>>
    /\ indicators = <<>>

Init ==
    /\ \E list \in ToolLists : DriverInit(list)
    /\ ProgressIdle
    /\ SubstIdle
    /\ ExtractIdle
    /\ CommandIdle

\* The per-tool locals as a new tool is taken up.
ResetTool ==
    /\ declared' = ""
    /\ version' = ""
    /\ versionFlags' = <<>>
    /\ flagIdx' = 1
    /\ probeLog' = <<>>
    /\ methods' = <<>>
    /\ mIdx' = 1
    /\ cIdx' = 1
    /\ cmdLog' = <<>>
    /\ attempted' = <<>>
    /\ blanks' = 0
    /\ toolConfig' = ""
    /\ err' = ""
    /\ unmet' = FALSE

perTool == <<declared, version, versionFlags, flagIdx, probeLog, methods, mIdx, cIdx, cmdLog,
             attempted, blanks, toolConfig, err, unmet>>

\* What installTool notes of the tool it works on.
installNotes == <<toolConfig, err, unmet>>

\* ------------------------------------------------------------ checkTool

\* Run takes the next name; LookPath fails: "Not installed", checkTool is false.
CheckToolNotFound ==
    /\ pc = "loop"
    /\ idx <= Len(ToolList)
    /\ found' = FALSE
    /\ ResetTool
    /\ pc' = "install"
    /\ UNCHANGED <<ToolList, idx, installed, outcomes, summary, exitCode>>
    /\ UNCHANGED <<progressVars, substVars, extractVars, commandVars>>

\* Run takes the next name; LookPath finds it: checkTool calls getToolVersion.
CheckToolFound ==
    /\ pc = "loop"
    /\ idx <= Len(ToolList)
    /\ found' = TRUE
    /\ ResetTool
    /\ pc' = "version"
    /\ UNCHANGED <<ToolList, idx, installed, outcomes, summary, exitCode>>
    /\ UNCHANGED <<progressVars, substVars, extractVars, commandVars>>

\* getToolVersion reads i.config.Tools[name].Version through a nil entry:
\* a nil pointer dereference, the runtime panics and the process exits 2.
GetToolVersionNil ==
    /\ pc = "version"
    /\ \E tc \in ToolsLookup : tc = Nil
    /\ pc' = "panic"
    /\ exitCode' = "2"
    /\ UNCHANGED <<ToolList, idx, installed, found, perTool, outcomes, summary>>
    /\ UNCHANGED <<progressVars, substVars, extractVars, commandVars>>

\* GetToolVersionFixed without the early return: the declared version is
\* read and the flags are probed all the same.
GetToolVersionFixedProbes ==
    /\ pc = "version"
    /\ \E tc \in ToolConfig :
          /\ tc.Version # ""
          /\ declared' = tc.Version
    /\ versionFlags' = versionFlagsDefault
    /\ flagIdx' = 1
    /\ version' = ""
    /\ pc' = "probe"
    /\ UNCHANGED <<ToolList, idx, installed, found, probeLog, methods, mIdx, cIdx,
                   cmdLog, attempted, blanks, outcomes, summary, exitCode>>
    /\ UNCHANGED installNotes
    /\ UNCHANGED <<progressVars, substVars, extractVars, commandVars>>

\* The entry declares a version: it is returned, nothing is spawned.
GetToolVersionFixed ==
    /\ pc = "version"
    /\ \E tc \in ToolConfig :
          /\ tc.Version # ""
          /\ declared' = tc.Version
          /\ version' = tc.Version
    /\ pc' = "checked"
    /\ UNCHANGED <<ToolList, idx, installed, found, versionFlags, flagIdx, probeLog,
                   methods, mIdx, cIdx, cmdLog, attempted, blanks, outcomes, summary,
                   exitCode>>
    /\ UNCHANGED installNotes
    /\ UNCHANGED <<progressVars, substVars, extractVars, commandVars>>

\* No declared version: the flag list is the default one, or the entry's flag alone.
GetToolVersionFlags ==
    /\ pc = "version"
    /\ \E tc \in ToolConfig :
          /\ tc.Version = ""
          /\ versionFlags' = IF tc.VersionFlag # "" THEN <<tc.VersionFlag>>
                             ELSE versionFlagsDefault
    /\ flagIdx' = 1
    /\ version' = ""
    /\ pc' = "probe"
    /\ UNCHANGED <<ToolList, idx, installed, found, declared, probeLog, methods, mIdx, cIdx,
                   cmdLog, attempted, blanks, outcomes, summary, exitCode>>
    /\ UNCHANGED installNotes
    /\ UNCHANGED <<progressVars, substVars, extractVars, commandVars>>

\* One probe `name flag` whose CombinedOutput errs: continue with the next flag.
ProbeError ==
    /\ pc = "probe"
    /\ flagIdx <= Len(versionFlags)
    /\ probeLog' = Append(probeLog, [flag |-> versionFlags[flagIdx], out |-> "error",
                                     version |-> ""])
    /\ flagIdx' = flagIdx + 1
    /\ UNCHANGED <<ToolList, pc, idx, installed, found, declared, version, versionFlags, methods,
                   mIdx, cIdx, cmdLog, attempted, blanks, outcomes, summary, exitCode>>
    /\ UNCHANGED installNotes
    /\ UNCHANGED <<progressVars, substVars, extractVars, commandVars>>

\* One probe that runs: version becomes what extractVersion makes of the
\* output; a non-empty version breaks the loop.
ProbeOutput ==
    /\ pc = "probe"
    /\ flagIdx <= Len(versionFlags)
    /\ \E v \in Extracted :
          /\ version' = v
          /\ probeLog' = Append(probeLog, [flag |-> versionFlags[flagIdx], out |-> "ok",
                                           version |-> v])
          /\ IF v # "" THEN /\ pc' = "checked"
                            /\ flagIdx' = flagIdx
             ELSE /\ pc' = pc
                  /\ flagIdx' = flagIdx + 1
    /\ UNCHANGED <<ToolList, idx, installed, found, declared, versionFlags, methods, mIdx, cIdx,
                   cmdLog, attempted, blanks, outcomes, summary, exitCode>>
    /\ UNCHANGED installNotes
    /\ UNCHANGED <<progressVars, substVars, extractVars, commandVars>>

\* The flags are used up: getToolVersion returns what version holds.
ProbeEnd ==
    /\ pc = "probe"
    /\ flagIdx > Len(versionFlags)
    /\ pc' = "checked"
    /\ UNCHANGED <<ToolList, idx, installed, found, perTool, outcomes, summary, exitCode>>
    /\ UNCHANGED <<progressVars, substVars, extractVars, commandVars>>

\* checkTool prints the tool as installed (with its version, or "version
\* unknown") and returns true; Run counts it and goes on.
CheckToolReturn ==
    /\ pc = "checked"
    /\ installed' = installed + 1
    /\ outcomes' = Append(outcomes, "present")
    /\ idx' = idx + 1
    /\ pc' = "loop"
    /\ UNCHANGED <<ToolList, found, perTool, summary, exitCode>>
    /\ UNCHANGED <<progressVars, substVars, extractVars, commandVars>>

\* ------------------------------------------------------------ installTool

\* RunInstallFailed without its continue: the failed tool is counted too.
RunInstallFailedCounted ==
    /\ outcomes' = Append(outcomes, "failed")
    /\ idx' = idx + 1
    /\ pc' = "loop"
    /\ installed' = installed + 1

\* Run's branch for an installTool that returned an error: print, continue.
RunInstallFailed ==
    /\ outcomes' = Append(outcomes, "failed")
    /\ idx' = idx + 1
    /\ pc' = "loop"
    /\ UNCHANGED <<installed>>

\* Run's branch for an installTool that returned nil.
RunInstallOk ==
    /\ installed' = installed + 1
    /\ outcomes' = Append(outcomes, "installed")
    /\ idx' = idx + 1
    /\ pc' = "loop"

\* A nil toolConfig, or one that points to an entry.
ToolConfigKind(tc) == IF tc = Nil THEN "nil" ELSE "entry"

\* The tools found present or installed so far in this run.
OkTools == {ToolList[k] : k \in {j \in 1..Len(outcomes) : outcomes[j] \in {"present", "installed"}}}

\* The names a dependencies list holds.
Names(deps) == {deps[k] : k \in 1..Len(deps)}

\* InstallToolNoMethods without the return: installTool goes on to its loop
\* over the (no) methods.
InstallToolNoMethodsLoops ==
    /\ pc = "install"
    /\ \E tc \in ToolsLookup :
          /\ IF tc = Nil THEN TRUE ELSE Len(tc.Methods) = 0
          /\ toolConfig' = ToolConfigKind(tc)
    /\ pc' = "method"
    /\ UNCHANGED <<ToolList, idx, installed, outcomes, found, declared, version, versionFlags,
                   flagIdx, probeLog, methods, mIdx, cIdx, cmdLog, attempted, blanks, err,
                   unmet, summary, exitCode>>
    /\ UNCHANGED <<progressVars, substVars, extractVars, commandVars>>

\* No entry, or an entry without methods: "no installation methods available".
InstallToolNoMethods ==
    /\ pc = "install"
    /\ \E tc \in ToolsLookup :
          /\ IF tc = Nil THEN TRUE ELSE Len(tc.Methods) = 0
          /\ toolConfig' = ToolConfigKind(tc)
    /\ err' = "no installation methods available"
    /\ RunInstallFailed
    /\ UNCHANGED <<ToolList, found, declared, version, versionFlags, flagIdx, probeLog,
                   methods, mIdx, cIdx, cmdLog, attempted, blanks, unmet, summary, exitCode>>
    /\ UNCHANGED <<progressVars, substVars, extractVars, commandVars>>

\* The entry has methods: the method loop starts.
InstallToolBegin ==
    /\ pc = "install"
    /\ \E tc \in ToolConfig :
          /\ Len(tc.Methods) > 0
          /\ methods' = tc.Methods
          /\ unmet' = (Names(tc.Dependencies) \ OkTools # {})
    /\ toolConfig' = "entry"
    /\ mIdx' = 1
    /\ pc' = "method"
    /\ UNCHANGED err
    /\ UNCHANGED <<ToolList, idx, installed, found, declared, version, versionFlags, flagIdx,
                   probeLog, cIdx, cmdLog, attempted, blanks, outcomes, summary, exitCode>>
    /\ UNCHANGED <<progressVars, substVars, extractVars, commandVars>>

\* The method loop takes the next method and announces it.
MethodNext ==
    /\ pc = "method"
    /\ mIdx <= Len(methods)
    /\ attempted' = Append(attempted, mIdx)
    /\ cIdx' = 1
    /\ pc' = "command"
    /\ UNCHANGED <<ToolList, idx, installed, found, declared, version, versionFlags, flagIdx,
                   probeLog, methods, mIdx, cmdLog, blanks, outcomes, summary, exitCode>>
    /\ UNCHANGED installNotes
    /\ UNCHANGED <<progressVars, substVars, extractVars, commandVars>>

\* The method loop is over: "all installation methods failed".
MethodsExhausted ==
    /\ pc = "method"
    /\ mIdx > Len(methods)
    /\ err' = "all installation methods failed"
    /\ RunInstallFailed
    /\ UNCHANGED <<ToolList, found, declared, version, versionFlags, flagIdx, probeLog,
                   methods, mIdx, cIdx, cmdLog, attempted, blanks, toolConfig, unmet, summary,
                   exitCode>>
    /\ UNCHANGED <<progressVars, substVars, extractVars, commandVars>>

\* The command loop of the method is over: on to the next method.
CommandsEnd ==
    /\ pc = "command"
    /\ cIdx > methods[mIdx].Commands
    /\ mIdx' = mIdx + 1
    /\ pc' = "method"
    /\ UNCHANGED <<ToolList, idx, installed, found, declared, version, versionFlags, flagIdx,
                   probeLog, methods, cIdx, cmdLog, attempted, blanks, outcomes, summary,
                   exitCode>>
    /\ UNCHANGED installNotes
    /\ UNCHANGED <<progressVars, substVars, extractVars, commandVars>>

\* The expanded command has no token (len(parts) == 0): continue.
CommandBlank ==
    /\ pc = "command"
    /\ cIdx <= methods[mIdx].Commands
    /\ blanks < MaxBlank
    /\ blanks' = blanks + 1
    /\ cIdx' = cIdx + 1
    /\ UNCHANGED <<ToolList, pc, idx, installed, found, declared, version, versionFlags, flagIdx,
                   probeLog, methods, mIdx, cmdLog, attempted, outcomes, summary, exitCode>>
    /\ UNCHANGED installNotes
    /\ UNCHANGED <<progressVars, substVars, extractVars, commandVars>>

\* execCmd.StdoutPipe or StderrPipe fails (no descriptor left for os.Pipe):
\* the command is never started and installTool returns the error at once.
CommandPipeFails ==
    /\ pc = "command"
    /\ cIdx <= methods[mIdx].Commands
    /\ cmdLog' = Append(cmdLog, [m |-> mIdx, c |-> cIdx, res |-> "nopipe"])
    /\ err' = "failed to create pipe"
    /\ RunInstallFailed
    /\ UNCHANGED <<toolConfig, unmet>>
    /\ UNCHANGED <<ToolList, found, declared, version, versionFlags, flagIdx, probeLog,
                   methods, mIdx, cIdx, attempted, blanks, summary, exitCode>>
    /\ UNCHANGED <<progressVars, substVars, extractVars, commandVars>>

\* Where a command that failed (to start, or with a non-zero exit) leaves the loops.
AfterFailedCommand ==
    /\ cIdx' = cIdx + 1
    /\ mIdx' = mIdx
    /\ pc' = "command"

\* execCmd.Start fails: "Failed to start command", continue.
CommandStartFails ==
    /\ pc = "command"
    /\ cIdx <= methods[mIdx].Commands
    /\ cmdLog' = Append(cmdLog, [m |-> mIdx, c |-> cIdx, res |-> "failed"])
    /\ AfterFailedCommand
    /\ UNCHANGED <<ToolList, idx, installed, found, declared, version, versionFlags, flagIdx,
                   probeLog, methods, attempted, blanks, outcomes, summary, exitCode>>
    /\ UNCHANGED installNotes
    /\ UNCHANGED <<progressVars, substVars, extractVars, commandVars>>

\* execCmd.Start succeeds: the subprocess runs, the driver goes to wait for it.
CommandStart ==
    /\ pc = "command"
    /\ cIdx <= methods[mIdx].Commands
    /\ cmdLog' = Append(cmdLog, [m |-> mIdx, c |-> cIdx, res |-> "running"])
    /\ pc' = "wait"
    /\ UNCHANGED <<ToolList, idx, installed, found, declared, version, versionFlags,
                   flagIdx, probeLog, methods, mIdx, cIdx, attempted, blanks, outcomes,
                   summary, exitCode>>
    /\ UNCHANGED installNotes
    /\ UNCHANGED <<progressVars, substVars, extractVars, commandVars>>

\* cmdLog with the exit of the running command written into its entry.
Exited(res) == [cmdLog EXCEPT ![Len(cmdLog)].res = res]

\* The subprocess exited non-zero: "Failed to install", continue.
WaitNonZero ==
    /\ pc = "wait"
    /\ cmdLog' = Exited("failed")
    /\ AfterFailedCommand
    /\ UNCHANGED <<ToolList, idx, installed, found, declared, version, versionFlags, flagIdx,
                   probeLog, methods, attempted, blanks, outcomes, summary, exitCode>>
    /\ UNCHANGED installNotes
    /\ UNCHANGED <<progressVars, substVars, extractVars, commandVars>>

\* AfterZeroExit with a continue in place of the return nil.
AfterZeroExitContinues ==
    /\ cIdx' = cIdx + 1
    /\ mIdx' = mIdx
    /\ pc' = "command"
    /\ UNCHANGED <<installed, outcomes, idx>>

\* Where a command that exited zero leaves the driver: installTool returns nil.
AfterZeroExit ==
    /\ RunInstallOk
    /\ UNCHANGED <<mIdx, cIdx>>

\* The subprocess exited zero.
WaitZero ==
    /\ pc = "wait"
    /\ cmdLog' = Exited("zero")
    /\ AfterZeroExit
    /\ UNCHANGED <<ToolList, found, declared, version, versionFlags, flagIdx, probeLog, methods,
                   attempted, blanks, summary, exitCode>>
    /\ UNCHANGED installNotes
    /\ UNCHANGED <<progressVars, substVars, extractVars, commandVars>>

\* ------------------------------------------------------------ Run's end

\* The loop over tool_list is over: the summary is printed, Run returns nil
\* and main returns: exit status 0.
RunSummary ==
    /\ pc = "loop"
    /\ idx > Len(ToolList)
    /\ summary' = [installed |-> installed, total |-> Len(ToolList), printed |-> TRUE]
    /\ exitCode' = "0"
    /\ pc' = "done"
    /\ UNCHANGED <<ToolList, idx, installed, found, perTool, outcomes>>
    /\ UNCHANGED <<progressVars, substVars, extractVars, commandVars>>

Next ==
    \/ CheckToolNotFound
    \/ CheckToolFound
    \/ GetToolVersionNil
    \/ GetToolVersionFixed
    \/ GetToolVersionFlags
    \/ ProbeError
    \/ ProbeOutput
    \/ ProbeEnd
    \/ CheckToolReturn
    \/ InstallToolNoMethods
    \/ InstallToolBegin
    \/ MethodNext
    \/ MethodsExhausted
    \/ CommandsEnd
    \/ CommandBlank
    \/ CommandPipeFails
    \/ CommandStartFails
    \/ CommandStart
    \/ WaitNonZero
    \/ WaitZero
    \/ RunSummary

Spec == Init /\ [][Next]_vars

\* ------------------------------------------------------------ Progress

\* NewProgress, then Start: the render goroutine is spawned and Start returns.
Start ==
    /\ caller = "new"
    /\ render' = "lock"
    /\ caller' = "started"
    /\ UNCHANGED <<stopped, stop, mu, spins, term>>
    /\ UNCHANGED <<driverVars, substVars, extractVars, commandVars>>

\* The render loop: p.mu.Lock().
RenderLock ==
    /\ render = "lock"
    /\ mu = "free"
    /\ mu' = "render"
    /\ render' = "check"
    /\ UNCHANGED <<stopped, stop, caller, spins, term>>
    /\ UNCHANGED <<driverVars, substVars, extractVars, commandVars>>

\* Where the render loop goes from its check of p.stopped.
AfterStoppedCheck == IF stopped THEN "exit" ELSE "select"

\* The render loop: if p.stopped, unlock and return; else unlock and go on.
RenderCheck ==
    /\ render = "check"
    /\ mu' = "free"
    /\ render' = AfterStoppedCheck
    /\ UNCHANGED <<stopped, stop, caller, spins, term>>
    /\ UNCHANGED <<driverVars, substVars, extractVars, commandVars>>

\* The select finds p.stop closed: the receive case is taken.
RenderSelectStop ==
    /\ render = "select"
    /\ stop = "closed"
    /\ render' = "clear"
    /\ UNCHANGED <<stopped, stop, mu, caller, spins, term>>
    /\ UNCHANGED <<driverVars, substVars, extractVars, commandVars>>

\* The select finds p.stop open: the default case is taken.
RenderSelectDefault ==
    /\ render = "select"
    /\ stop = "open"
    /\ spins < MaxSpins
    /\ render' = "spin"
    /\ UNCHANGED <<stopped, stop, mu, caller, spins, term>>
    /\ UNCHANGED <<driverVars, substVars, extractVars, commandVars>>

\* The receive case: the line is overwritten with blanks, the loop returns.
RenderClear ==
    /\ render = "clear"
    /\ term' = Append(term, "blank")
    /\ render' = "exit"
    /\ UNCHANGED <<stopped, stop, mu, caller, spins>>
    /\ UNCHANGED <<driverVars, substVars, extractVars, commandVars>>

\* The default case: a spinner frame is written, i++.
RenderSpin ==
    /\ render = "spin"
    /\ term' = Append(term, "spin")
    /\ spins' = spins + 1
    /\ render' = "sleep"
    /\ UNCHANGED <<stopped, stop, mu, caller>>
    /\ UNCHANGED <<driverVars, substVars, extractVars, commandVars>>

\* The default case: the 80 ms sleep is over, the loop goes round.
RenderSleep ==
    /\ render = "sleep"
    /\ render' = "lock"
    /\ UNCHANGED <<stopped, stop, mu, caller, spins, term>>
    /\ UNCHANGED <<driverVars, substVars, extractVars, commandVars>>

\* Stop: p.mu.Lock().
StopLock ==
    /\ caller = "started"
    /\ mu = "free"
    /\ mu' = "caller"
    /\ caller' = "locked"
    /\ UNCHANGED <<stopped, stop, render, spins, term>>
    /\ UNCHANGED <<driverVars, substVars, extractVars, commandVars>>

\* Stop: p.stopped = true.
StopSet ==
    /\ caller = "locked"
    /\ stopped' = TRUE
    /\ caller' = "set"
    /\ UNCHANGED <<stop, mu, render, spins, term>>
    /\ UNCHANGED <<driverVars, substVars, extractVars, commandVars>>

\* Stop: p.mu.Unlock().
StopUnlock ==
    /\ caller = "set"
    /\ mu' = "free"
    /\ caller' = "unlocked"
    /\ UNCHANGED <<stopped, stop, render, spins, term>>
    /\ UNCHANGED <<driverVars, substVars, extractVars, commandVars>>

\* Stop: close(p.stop), and Stop returns.
StopClose ==
    /\ caller = "unlocked"
    /\ stop' = "closed"
    /\ term' = Append(term, "stop returned")
    /\ caller' = "returned"
    /\ UNCHANGED <<stopped, mu, render, spins>>
    /\ UNCHANGED <<driverVars, substVars, extractVars, commandVars>>

ProgressInit ==
    /\ DriverInit(<<>>)
    /\ CommandIdle
    /\ SubstIdle
    /\ ExtractIdle
    /\ stopped = FALSE
    /\ stop = "open"
    /\ mu = "free"
    /\ render = "none"
    /\ caller = "new"
    /\ spins = 0
    /\ term = <<>>

ProgressNext ==
    \/ Start
    \/ RenderLock
    \/ RenderCheck
    \/ RenderSelectStop
    \/ RenderSelectDefault
    \/ RenderClear
    \/ RenderSpin
    \/ RenderSleep
    \/ StopLock
    \/ StopSet
    \/ StopUnlock
    \/ StopClose

SpecProgress == ProgressInit /\ [][ProgressNext]_vars

\* ------------------------------------------------------------ command rewriting

\* A command line is a sequence of pieces: a run of ordinary characters
\* ("lit"), white space ("sp"), a variable reference ${s} ("ref"), or
\* characters that spell a reference without being one to expand ("text").
Lit(s) == [k |-> "lit", s |-> s]
Sp == [k |-> "sp", s |-> " "]
Ref(name) == [k |-> "ref", s |-> name]
\* The characters "${version}" that strings.ReplaceAll searches for.
Placeholder == [k |-> "text", s |-> "version"]

TemplatePieces == {Lit("go"), Lit(".tar.gz"), Sp, Ref("version"), Ref("HOME")}

Templates == SeqsUpTo(TemplatePieces, MaxPieces)

\* The process environment: per variable the pieces of its value, <<>> when
\* it is unset or empty. A value may itself spell "${version}".
Environs == [version : {<<>>, <<Lit("9.9")>>},
             HOME : {<<>>, <<Lit("/root")>>, <<Placeholder>>}]

RECURSIVE Flatten(_)
Flatten(ss) == IF ss = <<>> THEN <<>> ELSE Head(ss) \o Flatten(Tail(ss))

\* os.ExpandEnv: every ${var} is replaced by the variable's value ("" when
\* unset), whatever the variable's name; nothing is expanded twice.
ExpandEnv(cmd, env) ==
    Flatten([k \in 1..Len(cmd) |->
                IF cmd[k].k = "ref" THEN env[cmd[k].s] ELSE <<cmd[k]>>])

\* strings.ReplaceAll(cmd, "${version}", v).
ReplaceAll(cmd, v) ==
    Flatten([k \in 1..Len(cmd) |->
                IF cmd[k] = Placeholder THEN <<Lit(v)>> ELSE <<cmd[k]>>])

\* installTool's use of ReplaceAll: only when the entry declares a version.
ReplaceVersion(cmd, v) == IF v # "" THEN ReplaceAll(cmd, v) ELSE cmd

RECURSIVE FieldsFrom(_, _, _)
FieldsFrom(cmd, cur, out) ==
    IF cmd = <<>> THEN (IF cur = <<>> THEN out ELSE Append(out, cur))
    ELSE IF Head(cmd).k = "sp"
         THEN FieldsFrom(Tail(cmd), <<>>, IF cur = <<>> THEN out ELSE Append(out, cur))
         ELSE FieldsFrom(Tail(cmd), Append(cur, Head(cmd)), out)

\* strings.Fields: the maximal runs without white space.
Fields(cmd) == FieldsFrom(cmd, <<>>, <<>>)

\* command = os.ExpandEnv(command)
SubstExpandEnv ==
    /\ step = "template"
    /\ command' = ExpandEnv(command, environ)
    /\ step' = "expanded"
    /\ UNCHANGED <<environ, toolVersion, template, parts>>
    /\ UNCHANGED <<driverVars, progressVars, extractVars, commandVars>>

\* if version != "" { command = strings.ReplaceAll(command, "${version}", version) }
SubstVersion ==
    /\ step = "expanded"
    /\ command' = ReplaceVersion(command, toolVersion)
    /\ step' = "replaced"
    /\ UNCHANGED <<environ, toolVersion, template, parts>>
    /\ UNCHANGED <<driverVars, progressVars, extractVars, commandVars>>

\* parts := strings.Fields(command); parts is the argv of exec.Command.
SubstFields ==
    /\ step = "replaced"
    /\ parts' = Fields(command)
    /\ step' = "split"
    /\ UNCHANGED <<environ, toolVersion, template, command>>
    /\ UNCHANGED <<driverVars, progressVars, extractVars, commandVars>>

SubstInit ==
    /\ DriverInit(<<>>)
    /\ CommandIdle
    /\ ProgressIdle
    /\ ExtractIdle
    /\ environ \in Environs
    /\ toolVersion \in {"", "1.23.3"}
    /\ template \in Templates
    /\ command = template
    /\ parts = <<>>
    /\ step = "template"

SubstNext ==
    \/ SubstExpandEnv
    \/ SubstVersion
    \/ SubstFields

SpecSubst == SubstInit /\ [][SubstNext]_vars

\* ------------------------------------------------------------ extractVersion

\* A text is a sequence of atoms: words, white space, punctuation, the
\* letter v, and numbers of the form digits.digits.digits. The regular
\* expressions of extractVersion are unanchored, so they see a text as its
\* atoms; no text here holds two numbers side by side.
Numbers == {"1.2.3", "4.5.6", "1.23.3", "2.0.0"}
Space == {" ", "\n"}

\* Lower-casing, for the patterns under (?i).
Fold(a) == CASE a \in {"Version", "VERSION"} -> "version"
             [] a \in {"Amass", "AMASS"} -> "amass"
             [] OTHER -> a

\* An element of a pattern: one atom of set, or (many) a run of one or more;
\* fold when the pattern is case-insensitive.
One(set, fold) == [set |-> set, many |-> FALSE, fold |-> fold]
Many(set, fold) == [set |-> set, many |-> TRUE, fold |-> fold]

\* extractVersion's patterns, in order. group is the place of the element
\* that opens the capture group (0: the pattern has none); paren is
\* strings.Contains(pattern, "("), which the flag group (?i) makes true too.
patterns ==
    << [els |-> <<One({"version"}, TRUE), Many(Space, TRUE), One({"v"}, TRUE),
                  One(Numbers, TRUE)>>,
        group |-> 3, paren |-> TRUE],
       [els |-> <<One({"amass"}, TRUE), Many(Space, TRUE), One({"-"}, TRUE),
                  Many(Space, TRUE), One({"v"}, TRUE), One(Numbers, TRUE)>>,
        group |-> 0, paren |-> TRUE],
       [els |-> <<One({"v"}, FALSE), One(Numbers, FALSE)>>,
        group |-> 0, paren |-> FALSE],
       [els |-> <<One(Numbers, FALSE)>>,
        group |-> 0, paren |-> FALSE],
       [els |-> <<One({"go"}, FALSE), One(Numbers, FALSE)>>,
        group |-> 0, paren |-> FALSE],
       [els |-> <<One({"Version"}, FALSE), One({":"}, FALSE), One({" "}, FALSE),
                  One({"v"}, FALSE), One(Numbers, FALSE)>>,
        group |-> 4, paren |-> TRUE] >>

Accepts(el, a) == (IF el.fold THEN Fold(a) ELSE a) \in el.set

\* The place after the run of atoms el accepts that starts at place i.
RECURSIVE RunEnd(_, _, _)
RunEnd(el, t, i) ==
    IF i <= Len(t) /\ Accepts(el, t[i]) THEN RunEnd(el, t, i + 1) ELSE i

\* Matching els from its element e on, at place i of t: the place after the
\* match, 0 when there is none. A run is followed by an element that
\* accepts no atom of the run, so the longest run is the only one to try.
RECURSIVE MatchFrom(_, _, _, _)
MatchFrom(els, e, t, i) ==
    IF e > Len(els) THEN i
    ELSE IF i > Len(t) \/ ~Accepts(els[e], t[i]) THEN 0
    ELSE MatchFrom(els, e + 1, t, IF els[e].many THEN RunEnd(els[e], t, i) ELSE i + 1)

\* The places of t where pattern p matches.
MatchPlaces(p, t) == {i \in 1..Len(t) : MatchFrom(p.els, 1, t, i) # 0}

\* The leftmost place where p matches t (some place must exist).
Leftmost(p, t) == CHOOSE i \in MatchPlaces(p, t) : \A j \in MatchPlaces(p, t) : i <= j

\* re.FindString: the leftmost match.
FindString(p, t) ==
    LET i == Leftmost(p, t) IN SubSeq(t, i, MatchFrom(p.els, 1, t, i) - 1)

\* match[1] of re.FindStringSubmatch: the capture group of the leftmost match.
Submatch(p, t) ==
    LET i == Leftmost(p, t)
        open == MatchFrom(SubSeq(p.els, 1, p.group - 1), 1, t, i)
    IN SubSeq(t, open, MatchFrom(p.els, 1, t, i) - 1)

\* strings.HasPrefix, strings.TrimPrefix and strings.Contains on atoms.
HasPrefix(t, pre) == Len(t) >= Len(pre) /\ SubSeq(t, 1, Len(pre)) = pre
TrimPrefix(t, pre) == IF HasPrefix(t, pre) THEN SubSeq(t, Len(pre) + 1, Len(t)) ELSE t
Contains(t, sub) == \E i \in 1..(Len(t) + 1) : HasPrefix(SubSeq(t, i, Len(t)), sub)

\* The characters "amass - ".
AmassPrefix == <<"amass", " ", "-", " ">>

\* The clean-up of a simple pattern's match.
CleanUp(match) ==
    IF Contains(match, AmassPrefix) THEN TrimPrefix(TrimPrefix(match, AmassPrefix), <<"v">>)
    ELSE IF HasPrefix(match, <<"go">>) THEN TrimPrefix(match, <<"go">>)
    ELSE match

\* strings.TrimSpace.
RECURSIVE TrimLeft(_)
TrimLeft(t) == IF t # <<>> /\ Head(t) \in Space THEN TrimLeft(Tail(t)) ELSE t
RECURSIVE TrimRight(_)
TrimRight(t) ==
    IF t # <<>> /\ t[Len(t)] \in Space THEN TrimRight(SubSeq(t, 1, Len(t) - 1)) ELSE t
TrimSpace(t) == TrimRight(TrimLeft(t))

\* strings.Split(t, "\n")[0].
RECURSIVE FirstLine(_)
FirstLine(t) ==
    IF t = <<>> \/ Head(t) = "\n" THEN <<>> ELSE <<Head(t)>> \o FirstLine(Tail(t))

\* The loop over patterns from the k-th on, then the first-line fallback.
RECURSIVE TryPatterns(_, _)
TryPatterns(t, k) ==
    IF k > Len(patterns) THEN FirstLine(t)
    ELSE LET p == patterns[k]
         IN IF MatchPlaces(p, t) = {} THEN TryPatterns(t, k + 1)
            ELSE IF p.paren
                 THEN (IF p.group # 0 THEN Submatch(p, t) ELSE TryPatterns(t, k + 1))
                 ELSE CleanUp(FindString(p, t))

extractVersion(out) == TryPatterns(TrimSpace(out), 1)

\* The atoms of the outputs tried at every length up to MaxAtoms.
Atoms == {"version", "Version", "amass", "AMASS", "go", "hello", " ", "\n", "-", ":", "v",
          "1.2.3"}

\* No two numbers side by side.
Spaced(t) == \A k \in 1..(Len(t) - 1) : ~(t[k] \in Numbers /\ t[k + 1] \in Numbers)

ShortOutputs == {t \in SeqsUpTo(Atoms, MaxAtoms) : Spaced(t)}

\* Outputs of the shapes tools print.
Samples == { <<"version", " ", "v", "1.2.3">>,
             <<"amass", " ", "-", " ", "v", "4.5.6">>,
             <<"go", "1.23.3", " ", "linux/amd64">>,
             <<"go", " ", "version", " ", "go", "1.23.3", " ", "linux/amd64", "\n">>,
             <<"Version", ":", " ", "v", "2.0.0">>,
             <<"hello", " ", "world">>,
             <<" ", "\n", " ">> }

\* Outputs that name amass and a version: amass in either case, one to
\* MaxGap white-space atoms on each side of the dash, alone or inside a line.
Gaps == SeqsUpTo(Space, MaxGap) \ {<<>>}

AmassOutputs ==
    {pre \o <<a>> \o g \o <<"-">> \o h \o <<"v", "4.5.6">> \o post :
        pre \in {<<>>, <<"OWASP", " ">>}, a \in {"amass", "Amass", "AMASS"},
        g \in Gaps, h \in Gaps, post \in {<<>>, <<"\n">>, <<" ", "hello">>}}

Outputs == ShortOutputs \cup Samples \cup AmassOutputs

\* getToolVersion calls extractVersion on a probe's output.
ExtractVersion ==
    /\ extractStep = "called"
    /\ extracted' = extractVersion(output)
    /\ extractStep' = "returned"
    /\ UNCHANGED output
    /\ UNCHANGED <<driverVars, progressVars, substVars, commandVars>>

ExtractInit ==
    /\ DriverInit(<<>>)
    /\ CommandIdle
    /\ ProgressIdle
    /\ SubstIdle
    /\ output \in Outputs
    /\ extracted = <<>>
    /\ extractStep = "called"

ExtractNext == ExtractVersion

SpecExtract == ExtractInit /\ [][ExtractNext]_vars

\* ------------------------------------------------------------ commands

\* NewProgress: not stopped, the channel open, no render goroutine yet.
NewProgress(k) ==
    [cmd |-> k, stopped |-> FALSE, stop |-> "open", render |-> "none", starts |-> 0,
     closes |-> 0]

\* Start: the render goroutine is spawned, at the top of its loop.
Started(p) == [p EXCEPT !.render = "check", !.starts = @ + 1]

\* Stop up to its unlock: p.stopped = true under p.mu.
StopSetOn(i) == [indicators EXCEPT ![i].stopped = TRUE]

\* Stop's close(p.stop).
StopCloseOn(i) == [indicators EXCEPT ![i].stop = "closed", ![i].closes = @ + 1]

\* The command the driver is handling.
Current == Len(run)

\* The "go: downloading" lines written and not yet read.
Downloading(k) == Len(SelectSeq(run[k].pipe, LAMBDA l : l = "downloading"))

RECURSIVE SumTo(_, _)
SumTo(f, n) == IF n = 0 THEN 0 ELSE f[n] + SumTo(f, n - 1)

\* The Progress instances created or sure to be: a scanner creates one for
\* each "go: downloading" line it reads.
Claimed ==
    Len(indicators)
    + SumTo([k \in 1..Len(run) |->
                Downloading(k) + (IF run[k].scan \in {"stop", "close", "replace"} THEN 1 ELSE 0)],
            Len(run))

\* execCmd.Start succeeds; NewProgress and Start; wg.Add(1) and the scanner
\* goroutine is spawned; the driver goes to execCmd.Wait.
CmdStart ==
    /\ dpc = "next"
    /\ Len(run) < MaxRunCmds
    /\ Claimed < MaxIndicators
    /\ run' = Append(run, [proc |-> "running", status |-> "", pipe |-> <<>>, written |-> 0,
                           scan |-> "scan", progress |-> Len(indicators) + 1])
    /\ indicators' = Append(indicators, Started(NewProgress(Len(run) + 1)))
    /\ dpc' = "wait"
    /\ UNCHANGED <<driverVars, progressVars, substVars, extractVars>>

\* The subprocess writes a line to stdout or stderr; a go install command
\* may write "go: downloading ...".
ProcWrite(k) ==
    /\ run[k].proc = "running"
    /\ run[k].written < MaxLines
    /\ \E line \in {"downloading", "other"} :
          /\ line = "downloading" => Claimed < MaxIndicators
          /\ run' = [run EXCEPT ![k].pipe = Append(@, line), ![k].written = @ + 1]
    /\ UNCHANGED <<dpc, indicators>>
    /\ UNCHANGED <<driverVars, progressVars, substVars, extractVars>>

\* The subprocess exits, zero or not.
ProcExit(k) ==
    /\ run[k].proc = "running"
    /\ \E status \in {"zero", "nonzero"} :
          run' = [run EXCEPT ![k].proc = "exited", ![k].status = status]
    /\ UNCHANGED <<dpc, indicators>>
    /\ UNCHANGED <<driverVars, progressVars, substVars, extractVars>>

\* scanner.Scan yields a line; a "go: downloading" line of a go install
\* command is shown, any other is dropped.
ScanLine(k) ==
    /\ run[k].scan = "scan"
    /\ run[k].pipe # <<>>
    /\ run' = [run EXCEPT ![k].pipe = Tail(@),
                          ![k].scan = IF Head(run[k].pipe) = "downloading" THEN "stop"
                                      ELSE "scan"]
    /\ UNCHANGED <<dpc, indicators>>
    /\ UNCHANGED <<driverVars, progressVars, substVars, extractVars>>

\* scanner.Scan is false: the pipe is drained and the subprocess has exited
\* (or execCmd.Wait closed the pipe); the deferred wg.Done runs.
ScanEnd(k) ==
    /\ run[k].scan = "scan"
    /\ run[k].pipe = <<>>
    /\ run[k].proc = "exited"
    /\ run' = [run EXCEPT ![k].scan = "done"]
    /\ UNCHANGED <<dpc, indicators>>
    /\ UNCHANGED <<driverVars, progressVars, substVars, extractVars>>

\* The scanner's progress.Stop(): p.stopped = true.
ScanStopSet(k) ==
    /\ run[k].scan = "stop"
    /\ indicators' = StopSetOn(run[k].progress)
    /\ run' = [run EXCEPT ![k].scan = "close"]
    /\ UNCHANGED dpc
    /\ UNCHANGED <<driverVars, progressVars, substVars, extractVars>>

\* The scanner's progress.Stop(): close(p.stop).
ScanStopClose(k) ==
    /\ run[k].scan = "close"
    /\ indicators' = StopCloseOn(run[k].progress)
    /\ run' = [run EXCEPT ![k].scan = "replace"]
    /\ UNCHANGED dpc
    /\ UNCHANGED <<driverVars, progressVars, substVars, extractVars>>

\* ScanReplace with the new Progress not assigned to the command's progress
\* variable.
ScanReplaceKeepsOld(k) ==
    /\ run[k].scan = "replace"
    /\ indicators' = Append(indicators, Started(NewProgress(k)))
    /\ run' = [run EXCEPT ![k].scan = "scan"]
    /\ UNCHANGED dpc
    /\ UNCHANGED <<driverVars, progressVars, substVars, extractVars>>

\* The scanner prints the line, then progress = NewProgress(...) and
\* progress.Start().
ScanReplace(k) ==
    /\ run[k].scan = "replace"
    /\ indicators' = Append(indicators, Started(NewProgress(k)))
    /\ run' = [run EXCEPT ![k].scan = "scan", ![k].progress = Len(indicators) + 1]
    /\ UNCHANGED dpc
    /\ UNCHANGED <<driverVars, progressVars, substVars, extractVars>>

\* The render loop of instance i: the check of p.stopped under p.mu.
LoopCheck(i) ==
    /\ indicators[i].render = "check"
    /\ indicators' = [indicators EXCEPT ![i].render = IF indicators[i].stopped THEN "exit"
                                                      ELSE "select"]
    /\ UNCHANGED <<dpc, run>>
    /\ UNCHANGED <<driverVars, progressVars, substVars, extractVars>>

\* The render loop of instance i: the select finds p.stop closed, the line
\* is overwritten with blanks and the goroutine returns.
LoopStop(i) ==
    /\ indicators[i].render = "select"
    /\ indicators[i].stop = "closed"
    /\ indicators' = [indicators EXCEPT ![i].render = "exit"]
    /\ UNCHANGED <<dpc, run>>
    /\ UNCHANGED <<driverVars, progressVars, substVars, extractVars>>

\* The render loop of instance i: the select finds p.stop open, a spinner
\* frame is written, and after the sleep the loop goes round.
LoopSpin(i) ==
    /\ indicators[i].render = "select"
    /\ indicators[i].stop = "open"
    /\ indicators' = [indicators EXCEPT ![i].render = "check"]
    /\ UNCHANGED <<dpc, run>>
    /\ UNCHANGED <<driverVars, progressVars, substVars, extractVars>>

\* execCmd.Wait returns: the subprocess has exited. Wait closes the read
\* ends of the pipes, so what the scanner had not yet taken in is lost.
DrvWait ==
    /\ dpc = "wait"
    /\ run[Current].proc = "exited"
    /\ \E n \in 0..Len(run[Current].pipe) :
          run' = [run EXCEPT ![Current].pipe = SubSeq(@, 1, n)]
    /\ dpc' = "wgwait"
    /\ UNCHANGED indicators
    /\ UNCHANGED <<driverVars, progressVars, substVars, extractVars>>

\* DrvWgWait without the wait for the scanner goroutine.
DrvWgWaitNot ==
    /\ dpc = "wgwait"
    /\ dpc' = "stop"
    /\ UNCHANGED <<run, indicators>>
    /\ UNCHANGED <<driverVars, progressVars, substVars, extractVars>>

\* wg.Wait returns: the scanner goroutine is done.
DrvWgWait ==
    /\ dpc = "wgwait"
    /\ run[Current].scan = "done"
    /\ dpc' = "stop"
    /\ UNCHANGED <<run, indicators>>
    /\ UNCHANGED <<driverVars, progressVars, substVars, extractVars>>

\* The driver's progress.Stop(): p.stopped = true.
DrvStopSet ==
    /\ dpc = "stop"
    /\ indicators' = StopSetOn(run[Current].progress)
    /\ dpc' = "close"
    /\ UNCHANGED run
    /\ UNCHANGED <<driverVars, progressVars, substVars, extractVars>>

\* The driver's progress.Stop(): close(p.stop).
DrvStopClose ==
    /\ dpc = "close"
    /\ indicators' = StopCloseOn(run[Current].progress)
    /\ dpc' = "clear"
    /\ UNCHANGED run
    /\ UNCHANGED <<driverVars, progressVars, substVars, extractVars>>

\* The driver overwrites the line with blanks and returns to its start.
DrvClear ==
    /\ dpc = "clear"
    /\ dpc' = "status"
    /\ UNCHANGED <<run, indicators>>
    /\ UNCHANGED <<driverVars, progressVars, substVars, extractVars>>

\* The driver evaluates err: "Failed to install" and continue, or return
\* nil; either way the next command, if any, is the next one it takes up.
DrvStatus ==
    /\ dpc = "status"
    /\ dpc' = "next"
    /\ UNCHANGED <<run, indicators>>
    /\ UNCHANGED <<driverVars, progressVars, substVars, extractVars>>

\* The run has no further command to start.
DrvEnd ==
    /\ dpc = "next"
    /\ dpc' = "done"
    /\ UNCHANGED <<run, indicators>>
    /\ UNCHANGED <<driverVars, progressVars, substVars, extractVars>>

CommandInit ==
    /\ DriverInit(<<>>)
    /\ ProgressIdle
    /\ SubstIdle
    /\ ExtractIdle
    /\ dpc = "next"
    /\ run = <<>>
    /\ indicators = <<>>

CommandNext ==
    \/ CmdStart
    \/ \E k \in 1..Len(run) : ProcWrite(k)
    \/ \E k \in 1..Len(run) : ProcExit(k)
    \/ \E k \in 1..Len(run) : ScanLine(k)
    \/ \E k \in 1..Len(run) : ScanEnd(k)
    \/ \E k \in 1..Len(run) : ScanStopSet(k)
    \/ \E k \in 1..Len(run) : ScanStopClose(k)
    \/ \E k \in 1..Len(run) : ScanReplace(k)
    \/ \E i \in 1..Len(indicators) : LoopCheck(i)
    \/ \E i \in 1..Len(indicators) : LoopStop(i)
    \/ \E i \in 1..Len(indicators) : LoopSpin(i)
    \/ DrvWait
    \/ DrvWgWait
    \/ DrvStopSet
    \/ DrvStopClose
    \/ DrvClear
    \/ DrvStatus
    \/ DrvEnd

SpecCommand == CommandInit /\ [][CommandNext]_vars

\* ------------------------------------------------------------ observations

\* A tool has been fully processed and the next has not been taken up: the
\* per-tool variables describe the tool whose outcome is the last of outcomes.
Returned == pc \in {"loop", "done"} /\ outcomes # <<>>

LastOutcome == outcomes[Len(outcomes)]

\* Method m's commands were all invoked, in declared order and nothing else
\* of m, and each exited zero.
MethodAllZero(m) ==
    LET n == methods[m].Commands
        own == SelectSeq(cmdLog, LAMBDA e : e.m = m)
    IN /\ n >= 1
       /\ Len(own) = n
       /\ \A k \in 1..n : own[k].c = k /\ own[k].res = "zero"

\* The places of cmdLog.
Invocations == 1..Len(cmdLog)

\* The command at place i was invoked: exec's Start was called for it.
Invoked(i) == cmdLog[i].res # "nopipe"

\* ------------------------------------------------------------------ claims

\* C1: installTool reports success only if some method had every one of its
\* commands executed in declared order, each exiting zero, and reports
\* failure when no method did.
C1_SuccessIffWholeMethod ==
    Returned =>
        ((LastOutcome = "installed") <=> (\E m \in 1..Len(methods) : MethodAllZero(m)))

\* C2: once a command of a method failed (did not spawn, or exited non-zero),
\* no later command of that same method is invoked.
C2_ShortCircuit ==
    \A i, j \in Invocations :
        (i < j /\ cmdLog[i].res = "failed" /\ Invoked(j)) => cmdLog[j].m # cmdLog[i].m

\* C4: the process ends only by Run returning nil after the summary, every
\* name of tool_list processed once, and exits 0.
C4_RunCompletes ==
    exitCode # "running" =>
        /\ exitCode = "0"
        /\ summary.printed
        /\ Len(outcomes) = Len(ToolList)

\* C6: methods are entered in declared order without skipping, commands are
\* invoked in declared order, a command that exited zero is the last one
\* invoked for the tool (no later method is touched) and the tool is then
\* reported installed; a tool is reported failed only after every method
\* was entered and no command exited zero (or when the driver could not
\* create the pipes of a command).
C6_MethodOrder ==
    /\ \A k \in 1..Len(attempted) : attempted[k] = k
    /\ \A i \in Invocations :
          cmdLog[i].m = attempted[Len(attempted)] \/ cmdLog[i].res = "failed"
    /\ \A i, j \in Invocations :
          i < j => \/ cmdLog[i].m < cmdLog[j].m
                   \/ cmdLog[i].m = cmdLog[j].m /\ cmdLog[i].c < cmdLog[j].c
    /\ \A i \in Invocations :
          cmdLog[i].res = "zero" =>
              /\ i = Len(cmdLog)
              /\ cmdLog[i].m = attempted[Len(attempted)]
              /\ Returned /\ LastOutcome = "installed"
    /\ (Returned /\ LastOutcome = "installed") =>
          cmdLog # <<>> /\ cmdLog[Len(cmdLog)].res = "zero"
    /\ (Returned /\ LastOutcome = "failed") =>
          \/ /\ Len(attempted) = Len(methods)
             /\ \A i \in Invocations : cmdLog[i].res = "failed"
          \/ /\ cmdLog # <<>>
             /\ ~Invoked(Len(cmdLog))
             /\ \A i \in 1..(Len(cmdLog) - 1) : cmdLog[i].res = "failed"

\* C6's case: the first method's commands all failed, a command of the
\* second exited zero, and a third method exists that was never entered.
C6_Witness ==
    /\ Returned /\ LastOutcome = "installed"
    /\ Len(methods) = 3
    /\ attempted = <<1, 2>>
    /\ Cardinality({i \in Invocations : cmdLog[i].m = 1}) = methods[1].Commands
    /\ methods[1].Commands = 2

\* The tools counted as installed: found present, or installed in this run.
CountedOutcomes == {k \in 1..Len(outcomes) : outcomes[k] \in {"present", "installed"}}

\* C7: the summary's installed number is the number of tools found present
\* or installed in this run, its total is the length of tool_list, and
\* 0 <= installed <= total.
C7_SummaryCount ==
    summary.printed =>
        /\ Len(outcomes) = Len(ToolList)
        /\ summary.installed = Cardinality(CountedOutcomes)
        /\ summary.total = Len(ToolList)
        /\ summary.installed <= summary.total

\* C7's case: a run that ended with one tool failed and another counted.
C7_Witness ==
    /\ summary.printed
    /\ \E a, b \in 1..Len(outcomes) : outcomes[a] = "failed" /\ outcomes[b] = "installed"

\* The current tool was found on the search path and is being, or has just
\* been, processed.
PresentTool == found /\ (pc \in {"version", "probe", "checked", "panic"} \/ Returned)

\* C8: for a tool found on the search path no installation command is
\* invoked and no method is entered; the tool is recorded as a success and
\* the driver goes on.
C8_PresentToolUntouched ==
    PresentTool =>
        /\ cmdLog = <<>> /\ attempted = <<>>
        /\ pc # "panic"
        /\ Returned => LastOutcome = "present"

\* C9: a present tool with a declared version gets exactly that version and
\* no probe is spawned.
C9_FixedVersion ==
    (PresentTool /\ declared # "") =>
        /\ probeLog = <<>>
        /\ version = declared
        /\ pc # "version"

\* C9's case: checkTool has returned for a tool with a declared version.
C9_Witness == Returned /\ found /\ declared = "v0.1.1" /\ LastOutcome = "present"

\* The probes made so far used the flag list in order, from its first flag.
ProbesInOrder ==
    /\ Len(probeLog) <= Len(versionFlags)
    /\ \A k \in 1..Len(probeLog) : probeLog[k].flag = versionFlags[k]

\* C10: a present tool without a declared version is probed with the seven
\* flags in order (or the configured flag alone); an erring probe is
\* skipped; the first non-empty version ends the probing; and the tool is
\* reported present, with version unknown when no probe yields one.
C10_VersionProbing ==
    (PresentTool /\ declared = "") =>
        /\ pc # "panic"
        /\ pc # "version" =>
              /\ versionFlags = versionFlagsDefault \/ Len(versionFlags) = 1
              /\ ProbesInOrder
              /\ \A k \in 1..Len(probeLog) :
                    /\ probeLog[k].out = "error" => probeLog[k].version = ""
                    /\ probeLog[k].version # "" => k = Len(probeLog)
              /\ version = IF probeLog = <<>> THEN "" ELSE probeLog[Len(probeLog)].version
              /\ (pc = "checked" \/ Returned) =>
                    \/ version # ""
                    \/ Len(probeLog) = Len(versionFlags)
              /\ Returned => LastOutcome = "present"

\* Where the terminal log records Stop's return.
StopReturnedAt == {k \in 1..Len(term) : term[k] = "stop returned"}

\* C5: once Stop has returned the render loop writes no spinner frame.
C5_NoSpinAfterStop ==
    \A a \in StopReturnedAt : \A b \in 1..Len(term) : b > a => term[b] # "spin"

\* The environment without its variable named version: a reference to it
\* stays the characters "${version}".
WithoutVersion(env) == [env EXCEPT !.version = <<Placeholder>>]

\* The argv the template stands for: other variables expanded, every
\* "${version}" replaced by the declared version, split at white space.
ExpectedParts ==
    Fields(ReplaceAll(ExpandEnv(template, WithoutVersion(environ)), toolVersion))

\* C3: with a declared version, whatever the environment, the argv executed
\* is the template with every ${version} replaced by that version and no
\* other token altered.
C3_VersionSubstituted ==
    (step = "split" /\ toolVersion # "") => parts = ExpectedParts

\* What the render loop wrote to the terminal, in order.
RenderWrites == SelectSeq(term, LAMBDA e : e \in {"spin", "blank"})

\* C12: a Progress that was started and stopped, and whose render loop is
\* over, had its line overwritten with blanks by that loop, as the loop's
\* last write.
C12_ClearOnStop ==
    (caller = "returned" /\ render = "exit") =>
        /\ RenderWrites # <<>>
        /\ RenderWrites[Len(RenderWrites)] = "blank"

\* The current tool was not found on the search path and installTool has
\* returned for it.
AbsentToolReturned == Returned /\ ~found

\* C13: an absent tool whose entry is missing, or has no method, fails with
\* "no installation methods available": no probe and no installation
\* command was spawned for it, it is not counted, and the driver goes on
\* with the next name.
C13_NoMethodsFails ==
    (~found /\ toolConfig # "" /\ methods = <<>>) =>
        /\ Returned
        /\ err = "no installation methods available"
        /\ LastOutcome = "failed"
        /\ probeLog = <<>> /\ cmdLog = <<>> /\ attempted = <<>>
        /\ installed = Cardinality(CountedOutcomes)
        /\ Len(outcomes) = idx - 1
        /\ exitCode # "2"

\* C13's case: the second name of tool_list has no entry and the run went
\* on to its summary.
C13_Witness ==
    /\ AbsentToolReturned
    /\ toolConfig = "nil"
    /\ Len(outcomes) = 2
    /\ summary.printed

\* C15: installTool does not take up a tool's methods while a tool named in
\* its dependencies is neither present nor installed.
C15_DependenciesFirst == attempted # <<>> => ~unmet

\* No pattern of extractVersion matches t.
NoPatternMatches(t) == \A k \in 1..Len(patterns) : MatchPlaces(patterns[k], t) = {}

\* C14: extractVersion maps 'version v1.2.3' to 'v1.2.3', 'amass - v4.5.6'
\* to '4.5.6', 'go1.23.3 linux/amd64' to '1.23.3' and 'Version: v2.0.0' to
\* 'v2.0.0'; a text no pattern matches to the first line of the trimmed
\* text; an empty or white-space-only text to the empty string.
C14_ExtractSamples ==
    extractStep = "returned" =>
        /\ output = <<"version", " ", "v", "1.2.3">> => extracted = <<"v", "1.2.3">>
        /\ output = <<"amass", " ", "-", " ", "v", "4.5.6">> => extracted = <<"4.5.6">>
        /\ output = <<"go", "1.23.3", " ", "linux/amd64">> => extracted = <<"1.23.3">>
        /\ output = <<"Version", ":", " ", "v", "2.0.0">> => extracted = <<"v", "2.0.0">>
        /\ output = <<"hello", " ", "world">> => extracted = <<"hello", " ", "world">>
        /\ NoPatternMatches(TrimSpace(output)) => extracted = FirstLine(TrimSpace(output))
        /\ TrimSpace(output) = <<>> => extracted = <<>>

\* The amass pattern is the first of the patterns to match t.
AmassFirst(t) == MatchPlaces(patterns[1], t) = {} /\ MatchPlaces(patterns[2], t) # {}

\* MAJOR.MINOR.PATCH of the leftmost 'amass - vMAJOR.MINOR.PATCH' of t.
AmassNumber(t) == LET m == FindString(patterns[2], t) IN <<m[Len(m)]>>

\* C17: on a text where the amass pattern is the first to match, whatever
\* the case of 'amass' and the white space around the dash, extractVersion
\* returns MAJOR.MINOR.PATCH alone.
C17_AmassStripped ==
    (extractStep = "returned" /\ AmassFirst(TrimSpace(output))) =>
        extracted = AmassNumber(TrimSpace(output))

\* The Progress instances created for command k.
IndicatorsOf(k) == {i \in 1..Len(indicators) : indicators[i].cmd = k}

\* Command k is over for the driver: it has stopped the last indicator.
Completed(k) == k < Current \/ (k = Current /\ dpc \in {"clear", "status", "next", "done"})

\* C11: when the driver evaluates a command's exit status, the scanner
\* goroutine of the command is done and every Progress created for the
\* command is stopped with its render loop terminated.
C11_StoppedBeforeStatus ==
    dpc = "status" =>
        /\ run[Current].scan = "done"
        /\ \A i \in IndicatorsOf(Current) :
              indicators[i].stop = "closed" /\ indicators[i].render = "exit"

\* C16: at most one installation subprocess runs at a time, and when a
\* command has been started every earlier command's process has exited and
\* its scanner goroutine is done.
C16_OneInFlight ==
    /\ Cardinality({k \in 1..Len(run) : run[k].proc = "running"}) <= 1
    /\ \A k \in 1..Len(run) :
          k < Current => run[k].proc = "exited" /\ run[k].scan = "done" /\ run[k].pipe = <<>>

\* C16's case: a second command runs after a first one whose scanner
\* replaced the indicator.
C16_Witness ==
    /\ Len(run) = 2
    /\ run[2].proc = "running"
    /\ Cardinality(IndicatorsOf(1)) = 2

\* C18: every Progress created is started once and its channel is closed at
\* most once; an instance the scanner replaced has had its Stop; and once a
\* command is over for the driver every Progress created for it has been
\* stopped, with exactly one Stop.
C18_StartedOnceStoppedOnce ==
    /\ \A i \in 1..Len(indicators) :
          indicators[i].starts = 1 /\ indicators[i].closes <= 1
    /\ \A k \in 1..Len(run) : \A i \in IndicatorsOf(k) :
          /\ i # run[k].progress => indicators[i].stopped /\ indicators[i].closes = 1
          /\ Completed(k) => indicators[i].stopped /\ indicators[i].closes = 1

\* C18's case: a command is over whose scanner replaced the indicator.
C18_Witness ==
    /\ dpc = "status"
    /\ Cardinality(IndicatorsOf(Current)) = 2

\* C19: the run ends only with its summary printed: as long as the summary
\* is not printed the driver has a step to take.
C19_RunTerminates == summary.printed \/ ENABLED Next

\* ------------------------------------------------------------ fairness

\* The steps of the driver, of the scanner goroutine of command k, and of
\* the render goroutine of instance i, within SpecCommand.
DriverSteps ==
    DrvWait \/ DrvWgWait \/ DrvStopSet \/ DrvStopClose \/ DrvClear \/ DrvStatus \/ DrvEnd
ScannerSteps(k) ==
    /\ k <= Len(run)
    /\ ScanLine(k) \/ ScanEnd(k) \/ ScanStopSet(k) \/ ScanStopClose(k) \/ ScanReplace(k)
LoopSteps(i) ==
    /\ i <= Len(indicators)
    /\ LoopCheck(i) \/ LoopStop(i) \/ LoopSpin(i)
ExitStep(k) == k <= Len(run) /\ ProcExit(k)

\* SpecCommand with every goroutine scheduled again and again and every
\* subprocess exiting in the end.
FairSpecCommand ==
    /\ SpecCommand
    /\ WF_vars(DriverSteps)
    /\ \A k \in 1..MaxRunCmds : WF_vars(ScannerSteps(k)) /\ WF_vars(ExitStep(k))
    /\ \A i \in 1..MaxIndicators : WF_vars(LoopSteps(i))

\* Under FairSpecCommand the driver gets through its commands, every
\* scanner reaches the end of its output and every render loop exits.
CommandsTerminate ==
    <>[](/\ dpc = "done"
         /\ \A k \in 1..Len(run) : run[k].scan = "done"
         /\ \A i \in 1..Len(indicators) : indicators[i].render = "exit")

====
